---------------------------- MODULE Spec2Model ----------------------------
(***************************************************************************)
(* PortHunter (main.go): one invocation runs an external scanner, parses   *)
(* its text, compares the result with the stored snapshot and rotates the  *)
(* two snapshot files.  Strings are sequences of one-character strings, so *)
(* that trimming, tokenising and formatting are computed, not assumed.     *)
(***************************************************************************)
EXTENDS Integers, Sequences, FiniteSets, TLC

VARIABLES
    pc,         \* position of the main goroutine
    spc,        \* position of the Spinner goroutine
    i,          \* Spinner's frame counter, kept modulo len(spinnerChars)
    screen,     \* what the Spinner printed last
    sent,       \* values received from the done channel
    command,    \* RunScan's command parameter (the -c flag)
    target,     \* RunScan's target parameter (the -t flag)
    cmd,        \* the exec.Cmd built by RunScan: [path, args]
    executed,   \* whether cmd.Run() was called
    runErr,     \* the error RunScan returns
    out,        \* the captured output of the external tool
    scan,       \* main's scan
    prevScan,   \* main's prevScan
    loadErr,    \* the error LoadPreviousScan returned
    report,     \* what CompareScans printed
    store,      \* scan_data: [dir, cur, bak]
    saveArg,    \* SaveScan's parameter
    ret,        \* where the running SaveScan call returns to
    saved,      \* the snapshots of the completed SaveScan calls
    start,      \* the store when the process started
    saveP,      \* the current slot when the running SaveScan call began
    runs,       \* processes started so far
    stoppedAt,  \* where the process was when it was stopped
    output,     \* ParseNmapOutput's parameter
    results,    \* ParseNmapOutput's return value
    oldPorts,   \* DiffPorts' parameter old
    newPorts,   \* DiffPorts' parameter new
    added,      \* DiffPorts' first return value
    removed     \* DiffPorts' second return value

fnVars == <<output, results, oldPorts, newPorts, added, removed>>
spinVars == <<spc, i, screen, sent>>
runVars == <<command, target, cmd, executed, runErr, out>>
mainVars == <<scan, prevScan, loadErr, report>>
saveVars == <<store, saveArg, ret, saved, saveP>>
histVars == <<start, runs, stoppedAt>>
vars == <<pc, spinVars, runVars, mainVars, saveVars, histVars, fnVars>>

(***************************************************************************)
(* Bounds of the model.                                                    *)
(***************************************************************************)
MaxLines == 3
MaxLen == 3
MaxPieces == 3
MaxRuns == 2
MaxSaves == 3
MaxPorts == 1

(***************************************************************************)
(* The strings package, on sequences of characters.                        *)
(***************************************************************************)
WhiteSpace == {" ", "\t", "\n", "\r"}

Range(s) == {s[k] : k \in 1..Len(s)}

TrimSpace(s) ==
    LET keep == {k \in 1..Len(s) : s[k] \notin WhiteSpace}
    IN  IF keep = {} THEN <<>>
        ELSE SubSeq(s, CHOOSE a \in keep : \A k \in keep : a <= k,
                       CHOOSE b \in keep : \A k \in keep : b >= k)

Trim(s, cutset) ==
    LET keep == {k \in 1..Len(s) : s[k] \notin cutset}
    IN  IF keep = {} THEN <<>>
        ELSE SubSeq(s, CHOOSE a \in keep : \A k \in keep : a <= k,
                       CHOOSE b \in keep : \A k \in keep : b >= k)

RECURSIVE Fields(_)
Fields(s) ==
    IF s = <<>> THEN <<>>
    ELSE IF Head(s) \in WhiteSpace THEN Fields(Tail(s))
    ELSE LET stops == {k \in 1..Len(s) : s[k] \in WhiteSpace}
             n == IF stops = {} THEN Len(s)
                  ELSE (CHOOSE a \in stops : \A k \in stops : a <= k) - 1
         IN  <<SubSeq(s, 1, n)>> \o Fields(SubSeq(s, n + 1, Len(s)))

HasPrefix(s, prefix) ==
    Len(s) >= Len(prefix) /\ SubSeq(s, 1, Len(prefix)) = prefix

Contains(s, substr) ==
    \E k \in 1..(Len(s) - Len(substr) + 1) :
        SubSeq(s, k, k + Len(substr) - 1) = substr

RECURSIVE Split(_, _)
Split(s, sep) ==
    LET at == {k \in 1..Len(s) : s[k] = sep}
    IN  IF at = {} THEN <<s>>
        ELSE LET n == CHOOSE a \in at : \A k \in at : a <= k
             IN  <<SubSeq(s, 1, n - 1)>> \o Split(SubSeq(s, n + 1, Len(s)), sep)

RECURSIVE Join(_, _)
Join(lines, sep) ==
    IF lines = <<>> THEN <<>>
    ELSE IF Len(lines) = 1 THEN lines[1]
    ELSE lines[1] \o <<sep>> \o Join(Tail(lines), sep)

SeqsUpTo(S, n) == UNION {[1..k -> S] : k \in 0..n}

(***************************************************************************)
(* ParseNmapOutput (main.go 106-138).                                      *)
(***************************************************************************)
HostPrefix ==
    <<"N", "m", "a", "p", " ", "s", "c", "a", "n", " ", "r", "e", "p", "o",
      "r", "t", " ", "f", "o", "r", " ">>
TcpMarker == <<"/", "t", "c", "p">>

\* fmt.Sprintf("%s [%s] (%s)", port, state, service)
FormatEntry(port, state, service) ==
    port \o <<" ", "[">> \o state \o <<"]", " ", "(">> \o service \o <<")">>

\* results[currentIP] = append(results[currentIP], entry)
AppendEntry(res, ip, entry) ==
    IF ip \in DOMAIN res THEN [res EXCEPT ![ip] = Append(@, entry)]
    ELSE res @@ (ip :> <<entry>>)

\* ParseLine without the currentIP != "" test of main.go 120.
ParseLineAnyHost(st, rawLine) ==
    LET line == TrimSpace(rawLine)
        cols == Fields(line)
    IN  IF HasPrefix(line, HostPrefix)
        THEN [st EXCEPT !.currentIP = Trim(cols[Len(cols)], {"(", ")"})]
        ELSE IF Contains(line, TcpMarker)
        THEN IF Len(cols) >= 3
             THEN [st EXCEPT !.results =
                      AppendEntry(@, st.currentIP,
                                  FormatEntry(cols[1], cols[2], cols[3]))]
             ELSE st
        ELSE st

\* One pass of the loop body (main.go 112-135): st is [currentIP, results].
ParseLine(st, rawLine) ==
    LET line == TrimSpace(rawLine)
        cols == Fields(line)
    IN  IF HasPrefix(line, HostPrefix)
        THEN [st EXCEPT !.currentIP = Trim(cols[Len(cols)], {"(", ")"})]
        ELSE IF Contains(line, TcpMarker) /\ st.currentIP # <<>>
        THEN IF Len(cols) >= 3
             THEN [st EXCEPT !.results =
                      AppendEntry(@, st.currentIP,
                                  FormatEntry(cols[1], cols[2], cols[3]))]
             ELSE st
        ELSE st

RECURSIVE ParseLines(_, _)
ParseLines(st, lines) ==
    IF lines = <<>> THEN st
    ELSE ParseLines(ParseLine(st, Head(lines)), Tail(lines))

ParseNmapOutput(text) ==
    ParseLines([currentIP |-> <<>>, results |-> <<>>], Split(text, "\n")).results

(***************************************************************************)
(* DiffPorts (main.go 268-292).  The two result slices are filled by       *)
(* ranging over maps, so their order is any order.                         *)
(***************************************************************************)
Orderings(S) ==
    {s \in [1..Cardinality(S) -> S] : \A e \in S : \E k \in DOMAIN s : s[k] = e}

\* DiffPorts without the !newSet[p] test of main.go 286.
DiffPortsAllOld(old, new) ==
    LET oldSet == Range(old)
        newSet == Range(new)
    IN  {<<a, r>> : a \in Orderings(newSet \ oldSet), r \in Orderings(oldSet)}

DiffPorts(old, new) ==
    LET oldSet == Range(old)
        newSet == Range(new)
    IN  {<<a, r>> : a \in Orderings(newSet \ oldSet),
                    r \in Orderings(oldSet \ newSet)}

(***************************************************************************)
(* ScanResult, its timestamps and its JSON form.                           *)
(*   DateTime: a string; rfc3339 says whether time.Parse(time.RFC3339, _)  *)
(*   accepts it, instant is the parsed instant in seconds.                 *)
(*   A file is absent, partial (opened with O_TRUNC, not yet fully         *)
(*   written) or a JSON document whose "ports" object is a set of members. *)
(***************************************************************************)
EmptyString == [rfc3339 |-> FALSE, instant |-> 0]
RFC3339(t) == [rfc3339 |-> TRUE, instant |-> t]

ZeroScan == [DateTime |-> EmptyString, Ports |-> <<>>]

NoFile == [kind |-> "absent"]
Partial == [kind |-> "partial"]

MarshalIndent(s) ==
    [kind |-> "json", datetime |-> s.DateTime,
     ports |-> {<<h, s.Ports[h]>> : h \in DOMAIN s.Ports}]

Unmarshal(data) ==
    IF data.kind = "json"
    THEN [err |-> "nil",
          scan |-> [DateTime |-> data.datetime,
                    Ports |-> [h \in {m[1] : m \in data.ports} |->
                                  (CHOOSE m \in data.ports : m[1] = h)[2]]]]
    ELSE [err |-> "unexpected end of JSON input", scan |-> ZeroScan]

EmptyStore(dir) == [dir |-> dir, cur |-> NoFile, bak |-> NoFile]

\* LoadPreviousScan (main.go 141-154)
LoadPreviousScan(st) ==
    IF st.cur.kind = "absent"
    THEN [err |-> "no such file or directory", scan |-> ZeroScan]
    ELSE Unmarshal(st.cur)

(***************************************************************************)
(* CompareScans (main.go 177-250): what it prints, and whether it saves.   *)
(***************************************************************************)
RECURSIVE SumOver(_, _)
SumOver(S, f) ==
    IF S = {} THEN 0
    ELSE LET x == CHOOSE y \in S : TRUE IN f[x] + SumOver(S \ {x}, f)

NoReport ==
    [err |-> "none", noChanges |-> TRUE, totalAdded |-> 0, totalRemoved |-> 0]

\* CompareScans with noChanges = false of main.go 234 moved into the loop of
\* main.go 236, so that a vanished host without entries is no change.
CompareScansEmptyGone(old, new) ==
    IF ~old.DateTime.rfc3339
    THEN [NoReport EXCEPT !.err = "Error parsing old scan time"]
    ELSE IF ~new.DateTime.rfc3339
    THEN [NoReport EXCEPT !.err = "Error parsing new scan time"]
    ELSE
    LET OldOf(ip) == IF ip \in DOMAIN old.Ports THEN old.Ports[ip] ELSE <<>>
        diff == [ip \in DOMAIN new.Ports |->
                    CHOOSE d \in DiffPorts(OldOf(ip), new.Ports[ip]) : TRUE]
        gone == {ip \in DOMAIN old.Ports : ip \notin DOMAIN new.Ports}
    IN  [err |-> "nil",
         noChanges |->
             /\ \A ip \in DOMAIN new.Ports :
                    Len(diff[ip][1]) = 0 /\ Len(diff[ip][2]) = 0
             /\ \A ip \in gone : Len(old.Ports[ip]) = 0,
         totalAdded |->
             SumOver(DOMAIN new.Ports, [ip \in DOMAIN new.Ports |-> Len(diff[ip][1])]),
         totalRemoved |->
             SumOver(DOMAIN new.Ports, [ip \in DOMAIN new.Ports |-> Len(diff[ip][2])])
             + SumOver(gone, [ip \in gone |-> Len(old.Ports[ip])])]

CompareScans(old, new) ==
    IF ~old.DateTime.rfc3339
    THEN [NoReport EXCEPT !.err = "Error parsing old scan time"]
    ELSE IF ~new.DateTime.rfc3339
    THEN [NoReport EXCEPT !.err = "Error parsing new scan time"]
    ELSE
    LET OldOf(ip) == IF ip \in DOMAIN old.Ports THEN old.Ports[ip] ELSE <<>>
        diff == [ip \in DOMAIN new.Ports |->
                    CHOOSE d \in DiffPorts(OldOf(ip), new.Ports[ip]) : TRUE]
        gone == {ip \in DOMAIN old.Ports : ip \notin DOMAIN new.Ports}
    IN  [err |-> "nil",
         noChanges |->
             /\ \A ip \in DOMAIN new.Ports :
                    Len(diff[ip][1]) = 0 /\ Len(diff[ip][2]) = 0
             /\ gone = {},
         totalAdded |->
             SumOver(DOMAIN new.Ports, [ip \in DOMAIN new.Ports |-> Len(diff[ip][1])]),
         totalRemoved |->
             SumOver(DOMAIN new.Ports, [ip \in DOMAIN new.Ports |-> Len(diff[ip][2])])
             + SumOver(gone, [ip \in gone |-> Len(old.Ports[ip])])]

(***************************************************************************)
(* RunScan's command line (main.go 46-58).                                 *)
(***************************************************************************)
Sudo == <<"s", "u", "d", "o">>

None == [kind |-> "none"]

\* exec.Command(name, arg...): Path is name, Args is name followed by arg.
ExecCommand(name, arg) == [kind |-> "cmd", path |-> name, args |-> <<name>> \o arg]

BuildCmd(c, t) ==
    LET args == Fields(c)
        executable == IF args[1] = Sudo /\ Len(args) > 1 THEN args[2] ELSE args[1]
        args2 == Append(args, t)
    IN  ExecCommand(executable, Tail(args2))

spinnerChars == <<"|", "/", "-", "\\">>

(***************************************************************************)
(* Inputs.                                                                 *)
(***************************************************************************)
Nmap == <<"n", "m", "a", "p">>
Pieces == {<<" ">>, Sudo \o <<" ">>, Nmap \o <<" ">>, <<"-", "p", "-">>}

RECURSIVE Concat(_)
Concat(ss) == IF ss = <<>> THEN <<>> ELSE Head(ss) \o Concat(Tail(ss))

Commands == {Concat(ps) : ps \in SeqsUpTo(Pieces, MaxPieces)}
Targets == {<<>>, <<"\t">>, <<"t">>, <<" ", "t", "\n">>}

PipeCommands == {<<>>, Nmap, Sudo \o <<" ">> \o Nmap}
PipeTargets == {<<>>, <<"t">>}

HostA == HostPrefix \o <<"a">>
ScanOutputs ==
    { <<"n", "o", " ", "h", "o", "s", "t", "s">>,
      Join(<<HostA, <<"8", "0", "/", "t", "c", "p", " ", "o", "p", "e", "n", " ",
                      "h", "t", "t", "p">> >>, "\n"),
      Join(<<HostA, <<"2", "2", "/", "t", "c", "p", " ", "o", "p", "e", "n", " ",
                      "s", "s", "h">> >>, "\n") }

\* ParseNmapOutput on the outputs the tool can give, computed once.
Parsed == [o \in ScanOutputs |-> ParseNmapOutput(o)]

(***************************************************************************)
(* The process: main (main.go 295-328) and what it calls.                  *)
(***************************************************************************)
Live == {"select", "print", "sleep", "clear"}
Kill(s) == IF s \in Live THEN "killed" ELSE s
Running == pc \notin {"idle", "exit", "stopped"}

FreshProcess(c, t) ==
    /\ command = c /\ target = t
    /\ cmd = None /\ executed = FALSE /\ runErr = "nil" /\ out = <<>>
    /\ scan = ZeroScan /\ prevScan = ZeroScan /\ loadErr = "unset"
    /\ report = NoReport
    /\ saveArg = ZeroScan /\ ret = "none" /\ saved = <<>> /\ saveP = NoFile
    /\ spc = "none" /\ i = 0 /\ screen = "" /\ sent = 0
    /\ stoppedAt = "none"

\* The same, of the next state: a new process starts with fresh memory.
StartProcess(c, t) ==
    /\ command' = c /\ target' = t
    /\ cmd' = None /\ executed' = FALSE /\ runErr' = "nil" /\ out' = <<>>
    /\ scan' = ZeroScan /\ prevScan' = ZeroScan /\ loadErr' = "unset"
    /\ report' = NoReport
    /\ saveArg' = ZeroScan /\ ret' = "none" /\ saved' = <<>> /\ saveP' = NoFile
    /\ spc' = "none" /\ i' = 0 /\ screen' = "" /\ sent' = 0
    /\ stoppedAt' = "none"

NoCalls ==
    /\ output = <<>> /\ results = <<>>
    /\ oldPorts = <<>> /\ newPorts = <<>> /\ added = <<>> /\ removed = <<>>

\* The shell starts the program with the flags -c c -t t.
Invoke(c, t) ==
    /\ ~Running
    /\ runs < MaxRuns
    /\ pc' = "RunScan"
    /\ runs' = runs + 1
    /\ start' = store
    /\ StartProcess(c, t)
    /\ UNCHANGED <<store, fnVars>>

\* RunScan up to go Spinner(done) (main.go 35-67)
RunScanEntry ==
    /\ pc = "RunScan"
    /\ command' = TrimSpace(command)
    /\ target' = TrimSpace(target)
    /\ IF command' = <<>>
       THEN /\ runErr' = "scan command cannot be empty"
            /\ pc' = "main_check"
            /\ UNCHANGED <<cmd, spc>>
       ELSE IF target' = <<>>
       THEN /\ runErr' = "target cannot be empty"
            /\ pc' = "main_check"
            /\ UNCHANGED <<cmd, spc>>
       ELSE /\ cmd' = BuildCmd(command', target')
            /\ spc' = "select"
            /\ pc' = "Run"
            /\ UNCHANGED runErr
    /\ UNCHANGED <<i, screen, sent, executed, out, mainVars, saveVars, histVars, fnVars>>

\* cmd.Run() (main.go 70): the tool fails, or exits 0 having written out.
CmdRun ==
    /\ pc = "Run"
    /\ executed' = TRUE
    /\ \E o \in ScanOutputs, failed \in BOOLEAN :
          /\ out' = o
          /\ runErr' = IF failed THEN "scan failed" ELSE "nil"
    /\ pc' = "send"
    /\ UNCHANGED <<command, target, cmd, spinVars, mainVars, saveVars, histVars, fnVars>>

\* A select that never takes case <-done.
SpinnerSelectDefaultOnly ==
    /\ spc = "select"
    /\ spc' = "print"
    /\ UNCHANGED <<pc, sent>>
    /\ UNCHANGED <<i, screen, runVars, mainVars, saveVars, histVars, fnVars>>

\* Spinner's select (main.go 93-97).  done is unbuffered: the receive case is
\* ready exactly while RunScan is blocked in done <- true (main.go 71), and
\* taking it completes that send.
SpinnerSelect ==
    /\ spc = "select"
    /\ IF pc = "send"
       THEN /\ spc' = "clear"
            /\ sent' = sent + 1
            /\ pc' = "after_send"
       ELSE /\ spc' = "print"
            /\ UNCHANGED <<pc, sent>>
    /\ UNCHANGED <<i, screen, runVars, mainVars, saveVars, histVars, fnVars>>

\* fmt.Printf("\rScanning... %c", spinnerChars[i%len(spinnerChars)]) (main.go 98)
SpinnerPrint ==
    /\ spc = "print"
    /\ screen' = spinnerChars[i + 1]
    /\ spc' = "sleep"
    /\ UNCHANGED <<pc, i, sent, runVars, mainVars, saveVars, histVars, fnVars>>

\* time.Sleep(100 * time.Millisecond); i++ (main.go 99-100)
SpinnerSleep ==
    /\ spc = "sleep"
    /\ i' = (i + 1) % Len(spinnerChars)
    /\ spc' = "select"
    /\ UNCHANGED <<pc, screen, sent, runVars, mainVars, saveVars, histVars, fnVars>>

\* fmt.Print("\r"); return (main.go 95-96)
SpinnerClear ==
    /\ spc = "clear"
    /\ screen' = "\r"
    /\ i' = 0
    /\ spc' = "returned"
    /\ UNCHANGED <<pc, sent, runVars, mainVars, saveVars, histVars, fnVars>>

Spinner == SpinnerSelect \/ SpinnerPrint \/ SpinnerSleep \/ SpinnerClear

\* RunScan after the send (main.go 73-84)
RunScanReturn ==
    /\ pc = "after_send"
    /\ scan' = IF runErr # "nil" THEN ZeroScan
               ELSE [DateTime |-> RFC3339(runs), Ports |-> Parsed[out]]
    /\ pc' = "main_check"
    /\ UNCHANGED <<spinVars, runVars, prevScan, loadErr, report, saveVars, histVars, fnVars>>

\* main without the return of main.go 316.
MainCheckNoReturn ==
    /\ pc = "main_check"
    /\ pc' = "Load"
    /\ UNCHANGED <<spc, i>>
    /\ UNCHANGED <<screen, sent, runVars, mainVars, saveVars, histVars, fnVars>>

\* if err != nil { ...; return } (main.go 314-317)
MainCheck ==
    /\ pc = "main_check"
    /\ IF runErr # "nil"
       THEN /\ pc' = "exit"
            /\ spc' = Kill(spc)
            /\ i' = 0
       ELSE /\ pc' = "Load"
            /\ UNCHANGED <<spc, i>>
    /\ UNCHANGED <<screen, sent, runVars, mainVars, saveVars, histVars, fnVars>>

\* prevScan, err := LoadPreviousScan() (main.go 319-324)
Load ==
    /\ pc = "Load"
    /\ LET r == LoadPreviousScan(store)
       IN  /\ prevScan' = r.scan
           /\ loadErr' = r.err
           /\ pc' = IF r.err = "nil" THEN "Compare" ELSE "main_save"
    /\ UNCHANGED <<spinVars, runVars, scan, report, saveVars, histVars, fnVars>>

\* CompareScans(prevScan, scan) (main.go 321), up to its SaveScan(new) (248)
Compare ==
    /\ pc = "Compare"
    /\ report' = CompareScans(prevScan, scan)
    /\ IF report'.err = "nil" /\ ~report'.noChanges
       THEN /\ pc' = "SaveScan"
            /\ saveArg' = scan
            /\ ret' = "main_save"
       ELSE /\ pc' = "main_save"
            /\ UNCHANGED <<saveArg, ret>>
    /\ UNCHANGED <<spinVars, runVars, scan, prevScan, loadErr, store, saved, saveP,
                   histVars, fnVars>>

\* SaveScan(scan) (main.go 326)
MainSave ==
    /\ pc = "main_save"
    /\ pc' = "SaveScan"
    /\ saveArg' = scan
    /\ ret' = "main_done"
    /\ UNCHANGED <<spinVars, runVars, mainVars, store, saved, saveP, histVars, fnVars>>

\* fmt.Println("Scan completed and saved.") and the end of main (main.go 327-328)
MainDone ==
    /\ pc = "main_done"
    /\ pc' = "exit"
    /\ spc' = Kill(spc)
    /\ i' = 0
    /\ UNCHANGED <<screen, sent, runVars, mainVars, saveVars, histVars, fnVars>>

(***************************************************************************)
(* SaveScan (main.go 157-174), one file-system call at a time.             *)
(***************************************************************************)
\* EnsureScanFolderExists (main.go 27-32, 159)
SaveEnsure ==
    /\ pc = "SaveScan"
    /\ store' = [store EXCEPT !.dir = TRUE]
    /\ saveP' = store.cur
    /\ pc' = "save_stat"
    /\ UNCHANGED <<spinVars, runVars, mainVars, saveArg, ret, saved, histVars, fnVars>>

\* SaveScan that never takes the branch of main.go 165-167.
SaveStatNoRotation ==
    /\ pc = "save_stat"
    /\ pc' = "save_open"
    /\ UNCHANGED <<spinVars, runVars, mainVars, saveVars, histVars, fnVars>>

\* if _, err := os.Stat(scanFile); err == nil (main.go 165)
SaveStat ==
    /\ pc = "save_stat"
    /\ pc' = IF store.cur.kind # "absent" THEN "save_rename" ELSE "save_open"
    /\ UNCHANGED <<spinVars, runVars, mainVars, saveVars, histVars, fnVars>>

\* A copy where main.go 166 renames: the current slot keeps its file.
SaveRenameCopies ==
    /\ pc = "save_rename"
    /\ store' = [store EXCEPT !.bak = store.cur]
    /\ pc' = "save_open"
    /\ UNCHANGED <<spinVars, runVars, mainVars, saveArg, ret, saved, saveP, histVars, fnVars>>

\* os.Rename(scanFile, backupScanFile) (main.go 166)
SaveRename ==
    /\ pc = "save_rename"
    /\ store' = [store EXCEPT !.bak = store.cur, !.cur = NoFile]
    /\ pc' = "save_open"
    /\ UNCHANGED <<spinVars, runVars, mainVars, saveArg, ret, saved, saveP, histVars, fnVars>>

\* os.WriteFile (main.go 173) opens scanFile with O_CREATE|O_TRUNC ...
SaveOpen ==
    /\ pc = "save_open"
    /\ store' = [store EXCEPT !.cur = Partial]
    /\ pc' = "save_write"
    /\ UNCHANGED <<spinVars, runVars, mainVars, saveArg, ret, saved, saveP, histVars, fnVars>>

\* ... and writes the bytes of json.MarshalIndent(scan) (main.go 169-173)
SaveWrite ==
    /\ pc = "save_write"
    /\ store' = [store EXCEPT !.cur = MarshalIndent(saveArg)]
    /\ saved' = Append(saved, saveArg)
    /\ pc' = ret
    /\ UNCHANGED <<spinVars, runVars, mainVars, saveArg, ret, saveP, histVars, fnVars>>

SaveScan == SaveEnsure \/ SaveStat \/ SaveRename \/ SaveOpen \/ SaveWrite

\* The process is stopped from outside (killed, power lost) wherever it is.
Stop ==
    /\ Running
    /\ pc' = "stopped"
    /\ stoppedAt' = pc
    /\ spc' = Kill(spc)
    /\ i' = 0
    /\ UNCHANGED <<screen, sent, runVars, mainVars, saveVars, start, runs, fnVars>>

(***************************************************************************)
(* Spec: invocations of the program, one after another, on an empty        *)
(* scan_data.                                                              *)
(***************************************************************************)
Init ==
    /\ pc = "idle"
    /\ store \in {EmptyStore(FALSE)}
    /\ start = store
    /\ runs = 0
    /\ FreshProcess(<<>>, <<>>)
    /\ NoCalls

Next ==
    \/ \E c \in PipeCommands, t \in PipeTargets : Invoke(c, t)
    \/ RunScanEntry
    \/ CmdRun
    \/ Spinner
    \/ RunScanReturn
    \/ MainCheck
    \/ Load
    \/ Compare
    \/ MainSave
    \/ MainDone
    \/ SaveScan
    \/ Stop

Spec == Init /\ [][Next]_vars

(***************************************************************************)
(* SpecRunScan: one call of RunScan with its Spinner, for any command and  *)
(* target.  The Go scheduler runs a runnable goroutine eventually: the     *)
(* Spinner's steps and RunScan's return are weakly fair.  The external     *)
(* tool is not required to finish.                                         *)
(***************************************************************************)
InitRunScan ==
    /\ pc = "RunScan"
    /\ store = EmptyStore(FALSE)
    /\ start = store
    /\ runs = 1
    /\ \E c \in Commands, t \in Targets : FreshProcess(c, t)
    /\ NoCalls

NextRunScan ==
    \/ RunScanEntry
    \/ CmdRun
    \/ Spinner
    \/ RunScanReturn

SpecRunScan ==
    /\ InitRunScan
    /\ [][NextRunScan]_vars
    /\ WF_vars(Spinner)
    /\ WF_vars(RunScanReturn)

(***************************************************************************)
(* SpecSave: SaveScan called again and again on an empty scan_data.        *)
(***************************************************************************)
Snapshots ==
    {[DateTime |-> RFC3339(t), Ports |-> ParseNmapOutput(o)] :
        t \in 1..2, o \in ScanOutputs}

InitSave ==
    /\ pc = "idle"
    /\ store \in {EmptyStore(FALSE), EmptyStore(TRUE)}
    /\ start = store
    /\ runs = 0
    /\ FreshProcess(<<>>, <<>>)
    /\ NoCalls

CallSaveScan(s) ==
    /\ pc = "idle"
    /\ Len(saved) < MaxSaves
    /\ pc' = "SaveScan"
    /\ saveArg' = s
    /\ ret' = "idle"
    /\ UNCHANGED <<spinVars, runVars, mainVars, store, saved, saveP, histVars, fnVars>>

NextSave ==
    \/ \E s \in Snapshots : CallSaveScan(s)
    \/ SaveScan

SpecSave == InitSave /\ [][NextSave]_vars

(***************************************************************************)
(* SpecCompare: main from its call of CompareScans on, for any stored      *)
(* snapshot and any new one.                                               *)
(***************************************************************************)
Hosts == {<<"a">>, <<"b">>}
Entries == {<<"x">>, <<"y">>}
PortLists == SeqsUpTo(Entries, MaxPorts) \cup {<<<<"x">>, <<"x">>>>}
PortMaps == UNION {[hs -> PortLists] : hs \in SUBSET Hosts}
Scans ==
    {[DateTime |-> d, Ports |-> m] : d \in {EmptyString, RFC3339(1)}, m \in PortMaps}

InitCompare ==
    /\ pc = "Compare"
    /\ prevScan \in Scans
    /\ scan \in Scans
    /\ store = [dir |-> TRUE, cur |-> MarshalIndent(prevScan), bak |-> NoFile]
    /\ start = store
    /\ runs = 1
    /\ command = Nmap /\ target = <<"t">>
    /\ cmd = BuildCmd(command, target) /\ executed = TRUE /\ runErr = "nil"
    /\ out = <<>>
    /\ loadErr = "nil"
    /\ report = NoReport
    /\ saveArg = ZeroScan /\ ret = "none" /\ saved = <<>> /\ saveP = NoFile
    /\ spc = "returned" /\ i = 0 /\ screen = "\r" /\ sent = 1
    /\ stoppedAt = "none"
    /\ NoCalls

NextCompare ==
    \/ Compare
    \/ MainSave
    \/ MainDone
    \/ SaveScan

SpecCompare == InitCompare /\ [][NextCompare]_vars

(***************************************************************************)
(* SpecParse: ParseNmapOutput on any text of up to MaxLines lines.         *)
(***************************************************************************)
LineSet ==
    { HostA,
      HostPrefix \o <<"x", " ", "(", "b", ")">>,
      HostPrefix \o <<"(", ")">>,
      <<"8", "0", "/", "t", "c", "p", " ", "o", "p", "e", "n", " ", "h", "t", "t", "p">>,
      <<" ", "2", "2", "/", "t", "c", "p", "\t", "c", "l", "o", "s", "e", "d", " ",
        "s", "s", "h", " ", "v", "1", "\r">>,
      <<"9", "/", "t", "c", "p", " ", "o", "p", "e", "n">>,
      <<"P", "O", "R", "T", " ", "S", "T", "A", "T", "E">>,
      <<>> }

Texts == {Join(ls, "\n") : ls \in SeqsUpTo(LineSet, MaxLines)}

InitParse ==
    /\ pc = "ParseNmapOutput"
    /\ output \in Texts
    /\ results = <<>>
    /\ oldPorts = <<>> /\ newPorts = <<>> /\ added = <<>> /\ removed = <<>>
    /\ store = EmptyStore(FALSE)
    /\ start = store
    /\ runs = 0
    /\ FreshProcess(<<>>, <<>>)

ParseCall ==
    /\ pc = "ParseNmapOutput"
    /\ results' = ParseNmapOutput(output)
    /\ pc' = "parsed"
    /\ UNCHANGED <<spinVars, runVars, mainVars, saveVars, histVars,
                   output, oldPorts, newPorts, added, removed>>

SpecParse == InitParse /\ [][ParseCall]_vars

(***************************************************************************)
(* SpecDiff: DiffPorts on any two lists of up to MaxLen entries.           *)
(***************************************************************************)
PortEntries == {<<"x">>, <<"y">>, <<"z">>}

InitDiff ==
    /\ pc = "DiffPorts"
    /\ oldPorts \in SeqsUpTo(PortEntries, MaxLen)
    /\ newPorts \in SeqsUpTo(PortEntries, MaxLen)
    /\ added = <<>> /\ removed = <<>>
    /\ output = <<>> /\ results = <<>>
    /\ store = EmptyStore(FALSE)
    /\ start = store
    /\ runs = 0
    /\ FreshProcess(<<>>, <<>>)

DiffCall ==
    /\ pc = "DiffPorts"
    /\ \E d \in DiffPorts(oldPorts, newPorts) :
          /\ added' = d[1]
          /\ removed' = d[2]
    /\ pc' = "diffed"
    /\ UNCHANGED <<spinVars, runVars, mainVars, saveVars, histVars,
                   output, results, oldPorts, newPorts>>

SpecDiff == InitDiff /\ [][DiffCall]_vars

(***************************************************************************)
(* Properties.                                                             *)
(***************************************************************************)
NoRepeats(s) == \A j, k \in 1..Len(s) : s[j] = s[k] => j = k

\* C4: DiffPorts(old, new) returns added with the elements of new that are not
\* in old and removed with the elements of old that are not in new, neither
\* with a repeated element whatever the inputs repeat; DiffPorts(X, X) is
\* (empty, empty); added(old, new) and removed(new, old) are the same set, and
\* so are removed(old, new) and added(new, old).
C4_DiffIsSetDifference ==
    pc = "diffed" =>
        /\ Range(added) = Range(newPorts) \ Range(oldPorts)
        /\ Range(removed) = Range(oldPorts) \ Range(newPorts)
        /\ NoRepeats(added) /\ NoRepeats(removed)
        /\ (oldPorts = newPorts => added = <<>> /\ removed = <<>>)
        /\ \A back \in DiffPorts(newPorts, oldPorts) :
              Range(back[2]) = Range(added) /\ Range(back[1]) = Range(removed)

C4_Witness ==
    /\ pc = "diffed"
    /\ ~NoRepeats(oldPorts) /\ ~NoRepeats(newPorts)
    /\ added # <<>> /\ removed # <<>>
    /\ Range(oldPorts) \cap Range(newPorts) # {}

\* The lines of a text as the claim reads them.
IsHostLine(l) == HasPrefix(TrimSpace(l), HostPrefix)
IsPortLine(l) ==
    ~IsHostLine(l) /\ Contains(l, TcpMarker) /\ Len(Fields(l)) >= 3
HostOf(l) == Trim(Fields(l)[Len(Fields(l))], {"(", ")"})
EntryOf(l) == FormatEntry(Fields(l)[1], Fields(l)[2], Fields(l)[3])
\* The host of the nearest host line above line k; <<>> when there is none.
HostAbove(ls, k) ==
    LET hs == {j \in 1..(k - 1) : IsHostLine(ls[j])}
    IN  IF hs = {} THEN <<>>
        ELSE HostOf(ls[CHOOSE j \in hs : \A m \in hs : m <= j])
PortLinesOf(ls, h) ==
    SelectSeq([k \in 1..Len(ls) |-> k],
              LAMBDA k : IsPortLine(ls[k]) /\ HostAbove(ls, k) = h)
EntriesOf(ls, h) ==
    [n \in 1..Len(PortLinesOf(ls, h)) |-> EntryOf(ls[PortLinesOf(ls, h)[n]])]

\* C7: ParseNmapOutput's mapping has, for each host, the entries of exactly the
\* port lines (containing "/tcp", at least three fields) between a host line
\* naming it and the next host line, in the order of the text; its hosts are
\* the non-empty host names that have such a line; a port line above every
\* host line is under no host, and a text with no host line gives the empty
\* mapping.
C7_ParseGroupsPortLinesByHost ==
    pc = "parsed" =>
        LET ls == Split(output, "\n")
            ports == {k \in 1..Len(ls) : IsPortLine(ls[k])}
        IN  /\ DOMAIN results = {HostAbove(ls, k) : k \in ports} \ {<<>>}
            /\ \A h \in DOMAIN results : results[h] = EntriesOf(ls, h)
            /\ SumOver(DOMAIN results, [h \in DOMAIN results |-> Len(results[h])])
                 = Cardinality({k \in ports : HostAbove(ls, k) # <<>>})
            /\ ((\A k \in 1..Len(ls) : ~IsHostLine(ls[k])) => results = <<>>)

C7_Witness ==
    /\ pc = "parsed"
    /\ LET ls == Split(output, "\n")
       IN  /\ Len(ls) = 3
           /\ IsPortLine(ls[1]) /\ IsHostLine(ls[2]) /\ IsPortLine(ls[3])
           /\ DOMAIN results = {<<"b">>}
           /\ Len(results[<<"b">>]) = 1

\* C3: between calls of SaveScan on a store that began empty, after k calls
\* the current slot holds the k-th saved snapshot and the backup slot the
\* (k-1)-th (none after the first call), and a snapshot saved earlier that is
\* neither of those two is in neither slot.
C3_SaveRotation ==
    pc = "idle" =>
        LET k == Len(saved)
            Holds(f, sn) == f.kind = "json" /\ Unmarshal(f).scan = sn
        IN  /\ k = 0 => store.cur = NoFile /\ store.bak = NoFile
            /\ k >= 1 => Holds(store.cur, saved[k])
            /\ k = 1 => store.bak = NoFile
            /\ k >= 2 => Holds(store.bak, saved[k - 1])
            /\ \A j \in 1..(k - 2) :
                  saved[j] \notin {saved[k], saved[k - 1]} =>
                      ~Holds(store.cur, saved[j]) /\ ~Holds(store.bak, saved[j])

C3_Witness ==
    /\ pc = "idle"
    /\ Len(saved) = 3
    /\ saved[1] # saved[2] /\ saved[2] # saved[3] /\ saved[1] # saved[3]
    /\ Unmarshal(store.bak).scan = saved[2]
    /\ Unmarshal(store.cur).scan = saved[3]

\* A run of main that got through RunScan, LoadPreviousScan and CompareScans
\* and reached the end of main.
CompleteRun == pc = "exit" /\ runErr = "nil" /\ loadErr = "nil"

\* What the comparison counts as a change: a host of new whose entries differ
\* as sets from its entries in old, or a host of old that new does not have.
PortsOf(sn, h) == IF h \in DOMAIN sn.Ports THEN Range(sn.Ports[h]) ELSE {}
Gone(old, new) == DOMAIN old.Ports \ DOMAIN new.Ports
Changed(old, new) ==
    \/ \E h \in DOMAIN new.Ports : PortsOf(old, h) # PortsOf(new, h)
    \/ Gone(old, new) # {}

\* C1: in a complete run the new snapshot is saved when and only when the
\* comparison detects a change; with no change nothing is saved and both
\* slots are as they were before the run.
C1_SavedIffChanged ==
    CompleteRun =>
        /\ (saved # <<>>) <=> Changed(prevScan, scan)
        /\ ~Changed(prevScan, scan) => store.cur = start.cur /\ store.bak = start.bak

\* C2: a complete run that loaded P, detected a change against N and saved
\* ends with backup = P and current = N.
C2_BackupIsPrevious ==
    (CompleteRun /\ Changed(prevScan, scan)) =>
        /\ store.bak = start.cur
        /\ Unmarshal(store.bak).scan = prevScan
        /\ store.cur = MarshalIndent(scan)

\* C8: a run in which RunScan returns an error never loads, compares or
\* saves, and the store stays as it was when the run began; a validation
\* error is returned before any command is built or executed, and a failure
\* of the tool is returned as an error.
AfterRunOnly == {"send", "after_send", "main_check", "exit"}
C8_AbortLeavesStore ==
    /\ runErr # "nil" =>
          /\ store = start
          /\ saved = <<>> /\ loadErr = "unset" /\ report = NoReport
          /\ pc \in AfterRunOnly \/ (pc = "stopped" /\ stoppedAt \in AfterRunOnly)
    /\ runErr \in {"scan command cannot be empty", "target cannot be empty"} =>
          ~executed /\ cmd = None /\ spc = "none"
    /\ (pc = "exit" /\ executed /\ saved = <<>> /\ loadErr = "unset") => runErr = "scan failed"

C8_Witness ==
    /\ pc = "exit"
    /\ runErr = "scan failed"
    /\ executed
    /\ start.cur.kind = "json"
    /\ store = start

\* C9: in a SaveScan call that found snapshot P in the current slot, the
\* current slot is untouched until the rename has moved it; from the rename
\* to the start of the write the backup slot holds P and the current slot is
\* absent, so that LoadPreviousScan reports a missing file; and wherever the
\* process is, or is stopped, in the call, P or the new snapshot is whole in
\* one of the slots.
At(p) == pc = p \/ (pc = "stopped" /\ stoppedAt = p)
Whole(f) == f.kind = "json" /\ f \in {saveP, MarshalIndent(saveArg)}
C9_RotationBeforeWrite ==
    saveP.kind = "json" =>
        /\ At("save_stat") \/ At("save_rename") => store.cur = saveP
        /\ At("save_open") =>
              /\ store.bak = saveP
              /\ store.cur = NoFile
              /\ LoadPreviousScan(store).err = "no such file or directory"
        /\ At("save_write") => store.bak = saveP /\ store.cur = Partial
        /\ (At("save_stat") \/ At("save_rename") \/ At("save_open") \/ At("save_write"))
              => Whole(store.cur) \/ Whole(store.bak)

C9_Witness ==
    /\ pc = "stopped"
    /\ stoppedAt = "save_open"
    /\ saveP.kind = "json"
    /\ saveP # MarshalIndent(saveArg)
    /\ store.bak = saveP
    /\ store.cur = NoFile

\* C5: with both timestamps parseable, CompareScans adds to the removed total
\* every entry (repeats included) of every host of old that new lacks and adds
\* nothing for it to the added total; such a host alone, even with no entries,
\* makes the comparison a change: "No changes detected" is not printed and
\* the new snapshot is saved.
Pairs(hs, E(_)) == UNION {{<<h, e>> : e \in E(h)} : h \in hs}
C5_GoneHostCounts ==
    (pc # "Compare" /\ prevScan.DateTime.rfc3339 /\ scan.DateTime.rfc3339) =>
        LET gone == Gone(prevScan, scan)
            AddedOf(h) == PortsOf(scan, h) \ PortsOf(prevScan, h)
            RemovedOf(h) == PortsOf(prevScan, h) \ PortsOf(scan, h)
        IN  /\ report.err = "nil"
            /\ report.totalAdded = Cardinality(Pairs(DOMAIN scan.Ports, AddedOf))
            /\ report.totalRemoved =
                   Cardinality(Pairs(DOMAIN scan.Ports, RemovedOf))
                   + SumOver(gone, [h \in gone |-> Len(prevScan.Ports[h])])
            /\ gone # {} =>
                  /\ ~report.noChanges
                  /\ saveArg = scan
                  /\ pc \in {"main_save", "main_done", "exit"} => saved[1] = scan
                  /\ pc = "exit" => store.cur = MarshalIndent(scan)

C5_Witness ==
    /\ pc = "main_save"
    /\ prevScan.DateTime.rfc3339 /\ scan.DateTime.rfc3339
    /\ \E h \in Gone(prevScan, scan) : prevScan.Ports[h] = <<>>
    /\ \A h \in Gone(prevScan, scan) : prevScan.Ports[h] = <<>>
    /\ \A h \in DOMAIN scan.Ports : PortsOf(prevScan, h) = PortsOf(scan, h)
    /\ ~report.noChanges
    /\ report.totalRemoved = 0
    /\ saved = <<scan>>

\* C6: the process RunScan executes is the program named by the first token
\* of the command, with the command's whitespace-separated tokens followed
\* by the target as its argument vector, "sudo" first or not.
C6_ArgvIsTokensThenTarget ==
    executed =>
        /\ cmd.path = Fields(command)[1]
        /\ cmd.args = Fields(command) \o <<target>>

\* C10: one value at most passes through done, and exactly one once the send
\* is over; the Spinner leaves its loop only after cmd.Run() has returned;
\* once it has received it prints no further frame; and a send that has
\* begun is received: the Spinner returns and RunScan returns to main.
C10_SpinnerStops ==
    /\ [](sent <= 1)
    /\ []((pc \in {"after_send", "main_check"} /\ executed) => sent = 1)
    /\ [](spc \in {"clear", "returned"} => executed /\ pc \notin {"RunScan", "Run", "send"})
    /\ [][(spc \in {"clear", "returned"}) => (screen' \in {screen, "\r"})]_vars
    /\ (pc = "send") ~> (spc = "returned" /\ pc = "main_check")

C10_Witness ==
    /\ pc = "main_check"
    /\ spc = "returned"
    /\ sent = 1
    /\ screen = "\r"
    /\ runErr = "scan failed"

=============================================================================
